---- MODULE Spec2Model ----
(***************************************************************************)
(* Card catalog toolchain: the admin HTTP server (admin-server.py) and the *)
(* two command line scripts (scripts/process-face-card.py and              *)
(* scripts/process-number-card.py), with the files they share: the catalog *)
(* data/cards.json, the uploads directory and the processed directory.     *)
(*                                                                         *)
(* Text (words, card ids, prompt answers) is a sequence of characters, a   *)
(* character being a one-element token; "i_dotless" stands for U+0131.     *)
(***************************************************************************)
EXTENDS Integers, Sequences, FiniteSets, TLC

\* env: os.environ of the running programs; dataFile: data/cards.json;
\* uploads, processed: the two directories; calls: the calls that are between
\* their first and their last statement, with their local variables; remote:
\* the files the hosting service holds; damaged: data/cards.json holds text
\* that json.load cannot read.
VARIABLES env, dataFile, uploads, processed, calls, remote, damaged

vars == <<env, dataFile, uploads, processed, calls, remote, damaged>>

(* ------------------------------ bounds -------------------------------- *)

\* Longest catalog the model lets a publish operation produce.
MaxCards == 2

(* ------------------------- text: str methods -------------------------- *)

\* str.upper() on one character, for the cased letters the model uses;
\* U+0131 (dotless i) upper-cases to "I".  Digits, "-" and " " are uncased.
UpperChar(c) ==
    CASE c = "i" -> "I" [] c = "i_dotless" -> "I"
      [] c = "f" -> "F" [] c = "a" -> "A" [] c = "c" -> "C" [] c = "e" -> "E"
      [] c = "y" -> "Y" [] c = "s" -> "S" [] c = "n" -> "N" [] c = "o" -> "O"
      [] OTHER -> c

\* str.lower() on one character; U+0131 is lower case already, and "I"
\* lower-cases to "i".
LowerChar(c) ==
    CASE c = "I" -> "i"
      [] c = "F" -> "f" [] c = "A" -> "a" [] c = "C" -> "c" [] c = "E" -> "e"
      [] c = "Y" -> "y" [] c = "S" -> "s" [] c = "N" -> "n" [] c = "O" -> "o"
      [] OTHER -> c

Upper(s) == [k \in 1..Len(s) |-> UpperChar(s[k])]

Lower(s) == [k \in 1..Len(s) |-> LowerChar(s[k])]

RECURSIVE LStrip(_)
LStrip(s) == IF s # <<>> /\ Head(s) = " " THEN LStrip(Tail(s)) ELSE s

RECURSIVE RStrip(_)
RStrip(s) ==
    IF s # <<>> /\ s[Len(s)] = " " THEN RStrip(SubSeq(s, 1, Len(s) - 1)) ELSE s

\* str.strip()
Strip(s) == RStrip(LStrip(s))

HexDigits ==
    { "0", "1", "2", "3", "4", "5", "6", "7", "8", "9",
      "a", "b", "c", "d", "e", "f" }

(* ------------------------------ inputs -------------------------------- *)

\* Words an operator may supply: i, I, U+0131, and face-i.
Words ==
    { <<"i">>, <<"I">>, <<"i_dotless">>, <<"f", "a", "c", "e", "-", "i">> }

\* str(uuid.uuid4())[:8] draws one of these fragments.
HexFrags == { <<"1", "a", "2", "b", "3", "c", "4", "d">> }

\* Answers typed at the scripts' confirmation prompt.
Answers ==
    { <<"y", "e", "s">>, <<" ", "Y", "E", "S", " ">>, <<"n", "o">>,
      <<"y">>, <<>> }

\* Image contents.  kind "raw" is a source file as supplied, "nobg" the PNG of
\* remove(crop(src, box)), "none" the absence of a file.
NoImage == [kind |-> "none", src |-> "", box |-> <<>>]

RawImage(s) == [kind |-> "raw", src |-> s, box |-> <<>>]

\* Source files: a picture, and a file PIL cannot open.
Sources == { RawImage("photo"), RawImage("corrupt") }

\* Crop requests as (x, y, width, height).
Crops == { <<0, 0, 1, 1>>, <<1, 0, 2, 3>> }

\* Names under the uploads directory that a request may give.
TempNames == { "temp_1.png" }

FileNames == TempNames \cup { "missing.png" }

\* Environments the server and the scripts are started in: os.environ.get(name)
\* is <<>> when the variable is unset and <<value>> when it is set.
Envs ==
    { [account |-> <<"acct">>, token |-> <<"tok">>, hash |-> <<>>],
      [account |-> <<>>,       token |-> <<"tok">>, hash |-> <<>>],
      [account |-> <<"">>,     token |-> <<"tok">>, hash |-> <<>>],
      [account |-> <<"acct">>, token |-> <<>>,      hash |-> <<>>],
      [account |-> <<"acct">>, token |-> <<"">>,    hash |-> <<>>] }

\* What the hosting service answers to an upload request.
Responses ==
    { [status |-> 500, success |-> FALSE, id |-> "", variants |-> <<>>],
      [status |-> 200, success |-> FALSE, id |-> "", variants |-> <<>>],
      [status |-> 200, success |-> TRUE, id |-> "img1",
       variants |-> <<"https://img.example/abc/public">>] }

(* --------------------------- card records ------------------------------ *)

NoCard == [id |-> <<>>, word |-> <<>>, imageUrl |-> "", type |-> ""]

Card(id, word, url, type) ==
    [id |-> id, word |-> word, imageUrl |-> url, type |-> type]

PngExt == <<".", "p", "n", "g">>

FacePrefix == <<"f", "a", "c", "e", "-">>

\* Keys of the processed directory, <key>_preview.png: the lower-cased forms
\* of the words and of the upper-cased words.
PreviewKeys == { Lower(Upper(w)) : w \in Words } \cup { Lower(w) : w \in Words }

(* --------------------------- catalog store ---------------------------- *)

\* The catalog file data/cards.json: absent, or holding {"cards": [...]}.
NoFile == [exists |-> FALSE, cards |-> <<>>]

load_cards(f) == IF f.exists THEN f.cards ELSE <<>>

save_cards(cards) == [exists |-> TRUE, cards |-> cards]

face_load_cards(f) == IF f.exists THEN f.cards ELSE <<>>

face_save_cards(cards) == [exists |-> TRUE, cards |-> cards]

number_load_cards(f) == IF f.exists THEN f.cards ELSE <<>>

\* Variant: the list is written last record first.
number_save_cards_reversed(cards) ==
    [exists |-> TRUE, cards |-> [k \in 1..Len(cards) |-> cards[Len(cards) + 1 - k]]]

number_save_cards(cards) == [exists |-> TRUE, cards |-> cards]

(* ------------------------- cloud image publisher ---------------------- *)

\* Python truth value of os.environ.get(name): None and "" are false.
Truthy(v) == v # <<>> /\ v[1] # ""

\* os.environ.get(name, default)
EnvGet(v, default) == IF v = <<>> THEN default ELSE v[1]

Configured(e) == Truthy(e.account) /\ Truthy(e.token)

UploadError(kind, reqs) ==
    [ok |-> FALSE, outcome |-> kind, requests |-> reqs, url |-> ""]

UploadOk(reqs, url) ==
    [ok |-> TRUE, outcome |-> "Success", requests |-> reqs, url |-> url]

\* One multipart POST to the hosting service: the file part's name and bytes.
Request(filename, body) == [filename |-> filename, body |-> body]

\* Variant: the body's success flag is not looked at.
upload_ignoring_success(e, image_bytes, filename, resp) ==
    IF ~Truthy(e.account) \/ ~Truthy(e.token)
    THEN UploadError("MissingConfiguration", <<>>)
    ELSE LET reqs == <<Request(filename, image_bytes)>> IN
         IF resp.status # 200 THEN UploadError("UploadFailed", reqs)
         ELSE UploadOk(reqs,
                  "https://imagedelivery.net/"
                      \o EnvGet(e.hash, "3oZsG34qPq3SIXQhl47vqA")
                      \o "/" \o resp.id \o "/medium")

\* Variant: the first entry of the variants array is returned when there is one.
upload_first_variant(e, image_bytes, filename, resp) ==
    IF ~Truthy(e.account) \/ ~Truthy(e.token)
    THEN UploadError("MissingConfiguration", <<>>)
    ELSE LET reqs == <<Request(filename, image_bytes)>> IN
         IF resp.status # 200 THEN UploadError("UploadFailed", reqs)
         ELSE IF ~resp.success THEN UploadError("UploadFailed", reqs)
         ELSE UploadOk(reqs,
                  IF resp.variants # <<>> THEN resp.variants[1]
                  ELSE "https://imagedelivery.net/"
                           \o EnvGet(e.hash, "3oZsG34qPq3SIXQhl47vqA")
                           \o "/" \o resp.id \o "/medium")

\* admin-server.py: the URL is built from the delivery hash, variant medium.
upload_to_cloudflare(e, image_bytes, filename, resp) ==
    IF ~Truthy(e.account) \/ ~Truthy(e.token)
    THEN UploadError("MissingConfiguration", <<>>)
    ELSE LET reqs == <<Request(filename, image_bytes)>> IN
         IF resp.status # 200 THEN UploadError("UploadFailed", reqs)
         ELSE IF ~resp.success THEN UploadError("UploadFailed", reqs)
         ELSE UploadOk(reqs,
                  "https://imagedelivery.net/"
                      \o EnvGet(e.hash, "3oZsG34qPq3SIXQhl47vqA")
                      \o "/" \o resp.id \o "/medium")

\* process-face-card.py: the file at image_path is sent as it is.
face_upload_to_cloudflare(e, image_file, filename, resp) ==
    IF ~Truthy(e.account) \/ ~Truthy(e.token)
    THEN UploadError("MissingConfiguration", <<>>)
    ELSE LET reqs == <<Request(filename, image_file)>> IN
         IF resp.status # 200 THEN UploadError("UploadFailed", reqs)
         ELSE IF ~resp.success THEN UploadError("UploadFailed", reqs)
         ELSE UploadOk(reqs,
                  IF resp.variants # <<>> THEN resp.variants[1]
                  ELSE "https://imagedelivery.net/" \o e.account[1]
                           \o "/" \o resp.id \o "/public")

\* Variant: only the account id is required before the request is sent.
number_upload_account_only(e, image, filename, resp) ==
    IF ~Truthy(e.account)
    THEN UploadError("MissingConfiguration", <<>>)
    ELSE LET reqs == <<Request(filename, image)>> IN
         IF resp.status # 200 THEN UploadError("UploadFailed", reqs)
         ELSE IF ~resp.success THEN UploadError("UploadFailed", reqs)
         ELSE UploadOk(reqs,
                  IF resp.variants # <<>> THEN resp.variants[1]
                  ELSE "https://imagedelivery.net/" \o e.account[1]
                           \o "/" \o resp.id \o "/public")

\* process-number-card.py: the processed image is sent PNG-encoded.
number_upload_to_cloudflare(e, image, filename, resp) ==
    IF ~Truthy(e.account) \/ ~Truthy(e.token)
    THEN UploadError("MissingConfiguration", <<>>)
    ELSE LET reqs == <<Request(filename, image)>> IN
         IF resp.status # 200 THEN UploadError("UploadFailed", reqs)
         ELSE IF ~resp.success THEN UploadError("UploadFailed", reqs)
         ELSE UploadOk(reqs,
                  IF resp.variants # <<>> THEN resp.variants[1]
                  ELSE "https://imagedelivery.net/" \o e.account[1]
                           \o "/" \o resp.id \o "/public")

\* The service answers only a request that was sent.
NoResponse == [status |-> 0, success |-> FALSE, id |-> "", variants |-> <<>>]

Answering(e) == IF Configured(e) THEN Responses ELSE { NoResponse }

(* --------------------------- card id generator ------------------------ *)

\* Variant: the word goes into the id as it is.
generate_card_id_as_is(word, card_type, short_uuid) ==
    (IF card_type = "face" THEN FacePrefix ELSE <<>>)
        \o word \o <<"-">> \o short_uuid

generate_card_id(word, card_type, short_uuid) ==
    (IF card_type = "face" THEN FacePrefix ELSE <<>>)
        \o Lower(word) \o <<"-">> \o short_uuid

\* Variant: the id of the number-card script.
face_generate_card_id_plain(word, short_uuid) ==
    Lower(word) \o <<"-">> \o short_uuid

face_generate_card_id(word, short_uuid) ==
    FacePrefix \o Lower(word) \o <<"-">> \o short_uuid

number_generate_card_id(word, short_uuid) ==
    Lower(word) \o <<"-">> \o short_uuid

(* ------------------------ image processing pipeline ------------------- *)

\* PIL's crop box (x, y, x + width, y + height).
CropBox(c) == <<c[1], c[2], c[1] + c[3], c[2] + c[4]>>

\* remove(img.crop(box)), PNG-encoded.
ProcessImage(img, c) == [kind |-> "nobg", src |-> img.src, box |-> CropBox(c)]

\* Image.open raises on a file that is no image.
Opens(img) == img.kind = "raw" /\ img.src # "corrupt"

(* ------------------------- outcome of one call ------------------------ *)

\* What one call of a handler, or one run of a script, answers and leaves
\* behind: status is the HTTP status (the exit status, for a script), card,
\* word and totalCards are fields of the answer, requests are the outbound
\* requests made to the hosting service, and files is the catalog file, the
\* uploads directory and the processed directory as the call leaves them.
Files == [dataFile |-> dataFile, uploads |-> uploads, processed |-> processed]

Outcome(status, kind) ==
    [status |-> status, outcome |-> kind, word |-> <<>>, card |-> NoCard,
     totalCards |-> 0, requests |-> <<>>, files |-> Files]

Published(status, new_card, cards, reqs, files) ==
    [status |-> status, outcome |-> "Success", word |-> <<>>, card |-> new_card,
     totalCards |-> Len(cards), requests |-> reqs, files |-> files]

Failed(status, up) == [Outcome(status, up.outcome) EXCEPT !.requests = up.requests]

\* The call takes effect.  A call that would make the catalog longer than
\* MaxCards is outside the model.
Commit(r) ==
    /\ Len(r.files.dataFile.cards) <= MaxCards
    /\ dataFile' = r.files.dataFile
    /\ uploads' = r.files.uploads
    /\ processed' = r.files.processed
    /\ UNCHANGED <<env, calls, remote, damaged>>

\* The values an input may take: all of S when the call reads the input, one
\* fixed value of S when it returns before reading it.
Read(isRead, S) == IF isRead THEN S ELSE { CHOOSE x \in S : TRUE }

\* The threads of the server and the processes of the scripts that can be at
\* work at the same time.
Callers == { "first", "second" }

\* A caller that is not in a call.
Idle ==
    [pc |-> "idle", op |-> "", card |-> NoCard, base |-> <<>>, cards |-> <<>>,
     status |-> 0, outcome |-> ""]

Init ==
    /\ env \in Envs
    /\ dataFile = NoFile
    /\ uploads = [n \in TempNames |-> NoImage]
    /\ processed = [k \in PreviewKeys |-> NoImage]
    /\ calls = [i \in Callers |-> Idle]
    /\ remote = {}
    /\ damaged = FALSE

(* --------------------------- admin HTTP server ------------------------ *)

\* GET /api/cards
get_cards_do ==
    [Outcome(200, "Success") EXCEPT !.totalCards = Len(load_cards(dataFile))]

get_cards == Commit(get_cards_do)

Parts == { "none", "empty", "file" }

\* POST /api/upload-temp.  part is what the multipart body holds under "image":
\* nothing, a part with an empty filename, or a file; name is the temporary
\* name drawn for it.
upload_temp_do(part, name, img) ==
    IF part = "none" THEN Outcome(400, "InvalidInput")
    ELSE IF part = "empty" THEN Outcome(400, "InvalidInput")
    ELSE LET saved == [Files EXCEPT !.uploads = [uploads EXCEPT ![name] = img]]
         IN  IF ~Opens(img)
             THEN [Outcome(500, "Unhandled") EXCEPT !.files = saved]
             ELSE [Outcome(200, "Success") EXCEPT !.files = saved]

upload_temp ==
    \E part \in Parts :
        \E name \in TempNames, img \in Read(part = "file", Sources) :
            Commit(upload_temp_do(part, name, img))

RequiredFields ==
    { "filename", "word", "cropX", "cropY", "cropWidth", "cropHeight" }

\* Variant: only filename and word are required.
missing_field_two(omitted) == omitted \in { "filename", "word" }

\* for field in required: if field not in data
missing_field(omitted) == omitted \in RequiredFields

\* Variant: the word is kept as it was given.
form_word_as_given(w) == w

\* data['word'].upper(), request.form['word'].upper()
form_word(w) == Upper(w)

\* Variant: the preview is taken to be there.
preview_exists_unchecked(key) == TRUE

\* preview_path.exists()
preview_exists(key) == processed[key] # NoImage

\* Variant: any name the uploads directory may hold counts as present.
ExistsByName(filename) == filename \in TempNames

\* temp_path.exists()
Exists(filename) == filename \in TempNames /\ uploads[filename] # NoImage

Faults == { "none", "int", "pipeline" }

\* Variant: a preview that is already there is kept.
process_number_card_once(omitted, filename, w, c, fault) ==
    IF missing_field(omitted) THEN Outcome(400, "InvalidInput")
    ELSE IF ~Exists(filename) THEN Outcome(404, "NotFound")
    ELSE LET word == form_word(w)
             img == uploads[filename]
         IN  IF fault = "int" THEN Outcome(500, "Unhandled")
             ELSE IF ~Opens(img) \/ fault = "pipeline"
             THEN Outcome(500, "ProcessingFailed")
             ELSE [Outcome(200, "Success") EXCEPT
                      !.word = word,
                      !.files = [Files EXCEPT !.processed =
                          [processed EXCEPT ![Lower(word)] =
                              IF processed[Lower(word)] # NoImage
                              THEN processed[Lower(word)]
                              ELSE ProcessImage(img, c)]]]

\* Variant: a processed card is put into the catalog at once, unpublished.
process_number_card_storing(omitted, filename, w, c, fault) ==
    IF missing_field(omitted) THEN Outcome(400, "InvalidInput")
    ELSE IF ~Exists(filename) THEN Outcome(404, "NotFound")
    ELSE LET word == form_word(w)
             img == uploads[filename]
         IN  IF fault = "int" THEN Outcome(500, "Unhandled")
             ELSE IF ~Opens(img) \/ fault = "pipeline"
             THEN Outcome(500, "ProcessingFailed")
             ELSE [Outcome(200, "Success") EXCEPT
                      !.word = word,
                      !.files = [Files EXCEPT
                          !.dataFile = save_cards(<<Card(Lower(word), word, "", "number")>>),
                          !.processed =
                          [processed EXCEPT ![Lower(word)] = ProcessImage(img, c)]]]

\* POST /api/process-number-card.  omitted is the required field the body
\* lacks ("none": it has them all); fault is where processing raises, if it
\* does: "int" at int(data[...]), "pipeline" in crop, remove or save.
process_number_card_do(omitted, filename, w, c, fault) ==
    IF missing_field(omitted) THEN Outcome(400, "InvalidInput")
    ELSE IF ~Exists(filename) THEN Outcome(404, "NotFound")
    ELSE LET word == form_word(w)
             img == uploads[filename]
         IN  IF fault = "int" THEN Outcome(500, "Unhandled")
             ELSE IF ~Opens(img) \/ fault = "pipeline"
             THEN Outcome(500, "ProcessingFailed")
             ELSE [Outcome(200, "Success") EXCEPT
                      !.word = word,
                      !.files = [Files EXCEPT !.processed =
                          [processed EXCEPT ![Lower(word)] = ProcessImage(img, c)]]]

process_number_card ==
    \E omitted \in RequiredFields \cup { "none" }, filename \in FileNames :
        LET found == omitted = "none" /\ Exists(filename) IN
        \E fault \in Read(found, Faults) :
            LET runs == found /\ fault = "none" /\ Opens(uploads[filename]) IN
            \E w \in Read(runs, Words), c \in Read(runs, Crops) :
                Commit(process_number_card_do(omitted, filename, w, c, fault))

\* Variant: the preview is left in place after the card is saved.
confirm_number_card_keeping(hasWord, w, short_uuid, resp) ==
    IF ~hasWord THEN Outcome(400, "InvalidInput")
    ELSE LET word == form_word(w)
             key == Lower(word)
         IN  IF ~preview_exists(key) THEN Outcome(404, "NotFound")
             ELSE LET img_bytes == processed[key]
                      card_id == generate_card_id(word, "number", short_uuid)
                      up == upload_to_cloudflare(env, img_bytes,
                                                 card_id \o PngExt, resp)
                      new_card == Card(card_id, word, up.url, "number")
                      cards == Append(load_cards(dataFile), new_card)
                  IN  IF ~up.ok THEN Failed(500, up)
                      ELSE Published(200, new_card, cards, up.requests,
                               [Files EXCEPT !.dataFile = save_cards(cards)])

\* POST /api/confirm-number-card
confirm_number_card_do(hasWord, w, short_uuid, resp) ==
    IF ~hasWord THEN Outcome(400, "InvalidInput")
    ELSE LET word == form_word(w)
             key == Lower(word)
         IN  IF ~preview_exists(key) THEN Outcome(404, "NotFound")
             ELSE LET img_bytes == processed[key]
                      card_id == generate_card_id(word, "number", short_uuid)
                      up == upload_to_cloudflare(env, img_bytes,
                                                 card_id \o PngExt, resp)
                      new_card == Card(card_id, word, up.url, "number")
                      cards == Append(load_cards(dataFile), new_card)
                  IN  IF ~up.ok THEN Failed(500, up)
                      ELSE Published(200, new_card, cards, up.requests,
                               [Files EXCEPT
                                   !.dataFile = save_cards(cards),
                                   !.processed = [processed EXCEPT ![key] = NoImage]])

confirm_number_card ==
    \E hasWord \in BOOLEAN :
        \E w \in Read(hasWord, Words) :
            LET found == hasWord /\ preview_exists(Lower(form_word(w))) IN
            \E short_uuid \in Read(found, HexFrags),
               resp \in Read(found, Answering(env)) :
                Commit(confirm_number_card_do(hasWord, w, short_uuid, resp))

\* POST /api/process-face-card.  part is as in upload_temp.
process_face_card_do(part, hasWord, w, file, short_uuid, resp) ==
    IF part = "none" THEN Outcome(400, "InvalidInput")
    ELSE IF ~hasWord THEN Outcome(400, "InvalidInput")
    ELSE IF part = "empty" THEN Outcome(400, "InvalidInput")
    ELSE LET word == form_word(w)
             img_bytes == file
             card_id == generate_card_id(word, "face", short_uuid)
             up == upload_to_cloudflare(env, img_bytes, card_id \o PngExt, resp)
             new_card == Card(card_id, word, up.url, "face")
             cards == Append(load_cards(dataFile), new_card)
         IN  IF ~up.ok THEN Failed(500, up)
             ELSE Published(200, new_card, cards, up.requests,
                      [Files EXCEPT !.dataFile = save_cards(cards)])

process_face_card ==
    \E part \in Parts, hasWord \in BOOLEAN :
        LET given == part = "file" /\ hasWord IN
        \E w \in Read(given, Words), file \in Read(given, Sources),
           short_uuid \in Read(given, HexFrags),
           resp \in Read(given, Answering(env)) :
            Commit(process_face_card_do(part, hasWord, w, file, short_uuid, resp))

\* Ids a delete request may name: every id a generator can produce.
CardIds ==
    { generate_card_id(Upper(w), t, u) :
        w \in Words, t \in { "number", "face" }, u \in HexFrags }

\* Variant: only the first record with the id is removed.
RECURSIVE WithoutFirst(_, _)
WithoutFirst(cards, card_id) ==
    IF cards = <<>> THEN <<>>
    ELSE IF Head(cards).id # card_id
         THEN <<Head(cards)>> \o WithoutFirst(Tail(cards), card_id)
         ELSE Tail(cards)

\* [c for c in cards if c["id"] != card_id]
RECURSIVE Without(_, _)
Without(cards, card_id) ==
    IF cards = <<>> THEN <<>>
    ELSE IF Head(cards).id # card_id
         THEN <<Head(cards)>> \o Without(Tail(cards), card_id)
         ELSE Without(Tail(cards), card_id)

\* DELETE /api/delete-card/<card_id>
delete_card_do(card_id) ==
    LET loaded == load_cards(dataFile)
        original_count == Len(loaded)
        cards == Without(loaded, card_id)
    IN  IF Len(cards) = original_count THEN Outcome(404, "NotFound")
        ELSE [Outcome(200, "Success") EXCEPT
                 !.totalCards = Len(cards),
                 !.files = [Files EXCEPT !.dataFile = save_cards(cards)]]

delete_card == \E card_id \in CardIds : Commit(delete_card_do(card_id))

(* ------------------------------ CLI scripts --------------------------- *)

Yes == <<"y", "e", "s">>

\* Variant: "y" is taken for "yes".
ConfirmShort(answer) ==
    IF Lower(Strip(answer)) = <<"y">> THEN Yes ELSE Lower(Strip(answer))

\* input(...).strip().lower()
Confirm(answer) == Lower(Strip(answer))

\* What a script may find at image_path: nothing, or a source file.
PathContents == Sources \cup { NoImage }

\* sys.argv[2].upper()
face_argv_word(w) == Upper(w)

\* scripts/process-face-card.py, one run.  argsOk: both arguments were given;
\* file: what is at image_path; e: the environment of the run.
face_main_do(argsOk, w, file, answer, e, short_uuid, resp) ==
    IF ~argsOk THEN Outcome(1, "InvalidInput")
    ELSE LET word == face_argv_word(w) IN
         IF file = NoImage THEN Outcome(1, "NotFound")
         ELSE IF ~Opens(file) THEN Outcome(1, "Unhandled")
         ELSE IF Confirm(answer) # Yes THEN Outcome(0, "Cancelled")
         ELSE LET card_id == face_generate_card_id(word, short_uuid)
                  up == face_upload_to_cloudflare(e, file, card_id \o PngExt, resp)
                  new_card == Card(card_id, word, up.url, "face")
                  cards == Append(face_load_cards(dataFile), new_card)
              IN  IF ~up.ok THEN Failed(1, up)
                  ELSE Published(0, new_card, cards, up.requests,
                           [Files EXCEPT !.dataFile = face_save_cards(cards)])

face_main ==
    \E argsOk \in BOOLEAN :
        \E file \in Read(argsOk, PathContents) :
            LET prompted == argsOk /\ Opens(file) IN
            \E w \in Read(prompted, Words), answer \in Read(prompted, Answers) :
                LET agreed == prompted /\ Confirm(answer) = Yes IN
                \E e \in { env }, short_uuid \in Read(agreed, HexFrags) :
                    \E resp \in Read(agreed, Answering(e)) :
                        Commit(face_main_do(argsOk, w, file, answer, e,
                                            short_uuid, resp))

\* sys.argv[2].upper()
number_argv_word(w) == Upper(w)

\* crop_image then remove_background
crop_image(image, c) == ProcessImage(image, c)

\* scripts/process-number-card.py, one run.  argsOk: all six arguments were
\* given; fault: where the run raises before the prompt, if it does ("int" at
\* int(sys.argv[...]), "pipeline" in crop, remove or save).
number_main_do(argsOk, w, file, c, fault, answer, e, short_uuid, resp) ==
    IF ~argsOk THEN Outcome(1, "InvalidInput")
    ELSE IF fault = "int" THEN Outcome(1, "Unhandled")
    ELSE LET word == number_argv_word(w) IN
         IF file = NoImage THEN Outcome(1, "NotFound")
         ELSE IF ~Opens(file) \/ fault = "pipeline" THEN Outcome(1, "Unhandled")
         ELSE LET image == crop_image(file, c)
                  saved == [Files EXCEPT !.processed =
                               [processed EXCEPT ![Lower(word)] = image]]
              IN  IF Confirm(answer) # Yes
                  THEN [Outcome(0, "Cancelled") EXCEPT !.files = saved]
                  ELSE LET card_id == number_generate_card_id(word, short_uuid)
                           up == number_upload_to_cloudflare(e, image,
                                                             card_id \o PngExt, resp)
                           new_card == Card(card_id, word, up.url, "number")
                           cards == Append(number_load_cards(dataFile), new_card)
                       IN  IF ~up.ok THEN [Failed(1, up) EXCEPT !.files = saved]
                           ELSE Published(0, new_card, cards, up.requests,
                                    [saved EXCEPT
                                        !.dataFile = number_save_cards(cards)])

number_main ==
    \E argsOk \in BOOLEAN :
        \E fault \in Read(argsOk, Faults) :
            \E file \in Read(argsOk /\ fault # "int", PathContents) :
                LET prompted == argsOk /\ fault = "none" /\ Opens(file) IN
                \E w \in Read(prompted, Words), c \in Read(prompted, Crops),
                   answer \in Read(prompted, Answers) :
                    LET agreed == prompted /\ Confirm(answer) = Yes IN
                    \E e \in { env },
                       short_uuid \in Read(agreed, HexFrags) :
                        \E resp \in Read(agreed, Answering(e)) :
                            Commit(number_main_do(argsOk, w, file, c, fault,
                                                  answer, e, short_uuid, resp))

(* ----------------------------- the system ----------------------------- *)

Next ==
    \/ get_cards
    \/ upload_temp
    \/ process_number_card
    \/ confirm_number_card
    \/ process_face_card
    \/ delete_card
    \/ face_main
    \/ number_main

Spec == Init /\ [][Next]_vars

(* ------------------- calls that overlap in time ----------------------- *)

\* The admin server answers each request on a thread of its own and each
\* script runs as a process of its own, so that the statements of two calls
\* interleave.  A call is followed through its three steps on the catalog
\* file: what it does up to and including the upload (begin), load_cards with
\* the change made to the loaded list (load), and save_cards with what follows
\* it (save).

\* Fragments uuid4 draws for the calls in flight.
CallFrags ==
    { <<"5", "e", "6", "f", "7", "0", "8", "1">>,
      <<"9", "a", "0", "b", "1", "c", "2", "d">> }

CallWords == { <<"i">> }

CallAnswers == { <<"y", "e", "s">>, <<"n", "o">> }

PublishOps == { "confirm", "face", "face_main", "number_main" }

AdminOps == { "confirm", "face", "delete" }

\* Ids a delete request names while other calls are in flight.
CallCardIds ==
    { generate_card_id(Upper(w), "number", u) :
        w \in CallWords, u \in HexFrags \cup CallFrags }

\* The file name under which the image of a card is sent.
Asset(card) == card.id \o PngExt

\* Variant: the hosting service keeps nothing.
AssetsNone(r) == {}

\* The files the hosting service has taken in the call with outcome r.
Assets(r) ==
    IF r.outcome = "Success"
    THEN { r.requests[k].filename : k \in 1..Len(r.requests) }
    ELSE {}

\* Variant: the call goes on to the catalog whatever the publisher answered.
proceeds_always(r) == TRUE

\* upload_to_cloudflare returned a URL: the call goes on to load_cards.
proceeds(r) == r.outcome = "Success"

\* Exit status of a call that raises: 500 from the server, 1 from a script.
FailStatus(op) == IF op \in AdminOps THEN 500 ELSE 1

OkStatus(op) == IF op \in AdminOps THEN 200 ELSE 0

\* A call starts and runs up to its load_cards; r is its outcome as far as
\* the statements before load_cards decide it, proc the processed directory
\* as they leave it.
Begin(i, op, r, proc) ==
    /\ calls[i].pc = "idle"
    /\ calls' = [calls EXCEPT ![i] =
           IF proceeds(r)
           THEN [Idle EXCEPT !.pc = "load", !.op = op, !.card = r.card]
           ELSE [Idle EXCEPT !.pc = "done", !.op = op, !.status = r.status,
                             !.outcome = r.outcome]]
    /\ remote' = remote \cup Assets(r)
    /\ processed' = proc
    /\ UNCHANGED <<env, dataFile, uploads, damaged>>

confirm_begin(i) ==
    \E w \in CallWords, u \in CallFrags, resp \in Answering(env) :
        Begin(i, "confirm", confirm_number_card_do(TRUE, w, u, resp), processed)

face_begin(i) ==
    \E w \in CallWords, u \in CallFrags, resp \in Answering(env) :
        Begin(i, "face",
              process_face_card_do("file", TRUE, w, RawImage("photo"), u, resp),
              processed)

delete_begin(i) ==
    \E card_id \in CallCardIds :
        /\ calls[i].pc = "idle"
        /\ calls' = [calls EXCEPT ![i] =
               [Idle EXCEPT !.pc = "load", !.op = "delete",
                            !.card = [NoCard EXCEPT !.id = card_id]]]
        /\ UNCHANGED <<env, dataFile, uploads, processed, remote, damaged>>

face_main_begin(i) ==
    \E w \in CallWords, a \in CallAnswers, u \in CallFrags,
       resp \in Answering(env) :
        Begin(i, "face_main",
              face_main_do(TRUE, w, RawImage("photo"), a, env, u, resp),
              processed)

number_main_begin(i) ==
    \E w \in CallWords, c \in Crops, a \in CallAnswers, u \in CallFrags,
       resp \in Answering(env) :
        LET r == number_main_do(TRUE, w, RawImage("photo"), c, "none", a, env,
                                u, resp)
        IN  Begin(i, "number_main", r, r.files.processed)

\* load_cards of the program the call belongs to.
loaded(op, f) ==
    CASE op = "face_main" -> face_load_cards(f)
      [] op = "number_main" -> number_load_cards(f)
      [] OTHER -> load_cards(f)

\* save_cards of the program the call belongs to.
saved(op, cards) ==
    CASE op = "face_main" -> face_save_cards(cards)
      [] op = "number_main" -> number_save_cards(cards)
      [] OTHER -> save_cards(cards)

\* The call reads the catalog and changes the list it has read: a publish
\* appends its new card, a delete filters the id out and answers 404 when no
\* record goes.  The read raises when the file is there and cannot be read
\* (io = "fail") or parsed (damaged).
catalog_load(i) ==
    /\ calls[i].pc = "load"
    /\ \E io \in { "ok", "fail" } :
           LET c == calls[i]
               data == loaded(c.op, dataFile)
           IN  /\ io = "fail" => dataFile.exists
               /\ calls' = [calls EXCEPT ![i] =
                      IF damaged \/ io = "fail"
                      THEN [c EXCEPT !.pc = "done", !.status = FailStatus(c.op),
                                     !.outcome = "CatalogFailed"]
                      ELSE IF c.op # "delete"
                      THEN [c EXCEPT !.pc = "save", !.base = data,
                                     !.cards = Append(data, c.card)]
                      ELSE IF Len(Without(data, c.card.id)) = Len(data)
                      THEN [c EXCEPT !.pc = "done", !.status = 404,
                                     !.outcome = "NotFound", !.base = data]
                      ELSE [c EXCEPT !.pc = "save", !.base = data,
                                     !.cards = Without(data, c.card.id)]]
    /\ UNCHANGED <<env, dataFile, uploads, processed, remote, damaged>>

\* Variant: the list is read again and changed again when it is written.
to_save_merged(c, f) ==
    IF c.op = "delete" THEN Without(loaded(c.op, f), c.card.id)
    ELSE Append(loaded(c.op, f), c.card)

\* What save_cards is handed: the list the call holds; the file f is not
\* looked at again.
to_save(c, f) == c.cards

\* The call writes the list it holds over the catalog file and answers; a
\* confirm removes its preview after the write.  open raises and leaves the
\* file as it was (io = "closed"), or the write raises part way and leaves
\* text that cannot be parsed (io = "torn").
catalog_save(i) ==
    /\ calls[i].pc = "save"
    /\ \E io \in { "ok", "closed", "torn" } :
           LET c == calls[i] IN
           IF io = "ok"
           THEN /\ Len(to_save(c, dataFile)) <= MaxCards
                /\ dataFile' = saved(c.op, to_save(c, dataFile))
                /\ damaged' = FALSE
                /\ processed' =
                       IF c.op = "confirm"
                       THEN [processed EXCEPT ![Lower(c.card.word)] = NoImage]
                       ELSE processed
                /\ calls' = [calls EXCEPT ![i] =
                       [c EXCEPT !.pc = "done", !.status = OkStatus(c.op),
                                 !.outcome = "Success"]]
           ELSE /\ dataFile' =
                       IF io = "torn" THEN [exists |-> TRUE, cards |-> <<>>]
                       ELSE dataFile
                /\ damaged' = (damaged \/ io = "torn")
                /\ processed' = processed
                /\ calls' = [calls EXCEPT ![i] =
                       [c EXCEPT !.pc = "done", !.status = FailStatus(c.op),
                                 !.outcome = "CatalogFailed"]]
    /\ UNCHANGED <<env, uploads, remote>>

\* A card published earlier, by a confirm that was answered with success.
EarlierCards ==
    LET e == CHOOSE x \in Envs : Configured(x)
        resp == CHOOSE x \in Responses : x.success
    IN  { Card(generate_card_id(Upper(w), "number", u), Upper(w),
               upload_to_cloudflare(e, NoImage, <<>>, resp).url, "number") :
            w \in CallWords, u \in HexFrags }

\* The server has been in use: a picture is uploaded, a preview of it is
\* waiting, and the catalog is absent or holds one card.
InitCalls ==
    /\ env \in Envs
    /\ dataFile \in { NoFile } \cup { save_cards(<<c>>) : c \in EarlierCards }
    /\ uploads = [n \in TempNames |-> RawImage("photo")]
    /\ processed =
           [k \in PreviewKeys |->
               IF k \in { Lower(Upper(w)) : w \in CallWords }
               THEN ProcessImage(RawImage("photo"), <<0, 0, 1, 1>>)
               ELSE NoImage]
    /\ calls = [i \in Callers |-> Idle]
    /\ remote = {}
    /\ damaged = FALSE

NextCalls ==
    \/ \E i \in Callers : confirm_begin(i)
    \/ \E i \in Callers : face_begin(i)
    \/ \E i \in Callers : delete_begin(i)
    \/ \E i \in Callers : face_main_begin(i)
    \/ \E i \in Callers : number_main_begin(i)
    \/ \E i \in Callers : catalog_load(i)
    \/ \E i \in Callers : catalog_save(i)
    \/ get_cards
    \/ process_number_card

Concurrent == InitCalls /\ [][NextCalls]_vars

(* ----------------------- delivery URL derivation ---------------------- *)

\* Configured environments with CLOUDFLARE_DELIVERY_HASH unset, set, and set
\* to the empty string.
UrlEnvs ==
    { [account |-> <<"acct">>, token |-> <<"tok">>, hash |-> h] :
        h \in { <<>>, <<"h4sh">>, <<"">> } }

\* Answers of the hosting service to an upload it has taken, with no, one and
\* two entries in result.variants.
UrlResponses ==
    { [status |-> 200, success |-> TRUE, id |-> "img1", variants |-> v] :
        v \in { <<>>,
                <<"https://img.example/abc/public">>,
                <<"https://img.example/abc/thumb",
                  "https://img.example/abc/public">> } }

InitUrl ==
    /\ env \in UrlEnvs
    /\ dataFile = NoFile
    /\ uploads = [n \in TempNames |-> NoImage]
    /\ processed = [k \in PreviewKeys |-> NoImage]
    /\ calls = [i \in Callers |-> Idle]
    /\ remote = {}
    /\ damaged = FALSE

\* The three publishers at work: the server's, through process-face-card,
\* and the two scripts'.
url_process_face_card ==
    \E w \in CallWords, u \in HexFrags, resp \in UrlResponses :
        Commit(process_face_card_do("file", TRUE, w, RawImage("photo"), u, resp))

url_face_main ==
    \E w \in CallWords, u \in HexFrags, resp \in UrlResponses :
        Commit(face_main_do(TRUE, w, RawImage("photo"), Yes, env, u, resp))

url_number_main ==
    \E w \in CallWords, c \in Crops, u \in HexFrags, resp \in UrlResponses :
        Commit(number_main_do(TRUE, w, RawImage("photo"), c, "none", Yes, env,
                              u, resp))

NextUrl ==
    \/ url_process_face_card
    \/ url_face_main
    \/ url_number_main
    \/ delete_card

UrlSpec == InitUrl /\ [][NextUrl]_vars

(* ------------------------------ properties ---------------------------- *)

\* The records of the catalog as load_cards returns them.
Catalog == IF dataFile.exists THEN dataFile.cards ELSE <<>>

HasId(cards, card_id) == \E k \in 1..Len(cards) : cards[k].id = card_id

DistinctIds(cards) ==
    \A j, k \in 1..Len(cards) : j # k => cards[j].id # cards[k].id

\* s ends in "-" and eight hexadecimal digits.
HasHexSuffix(s) ==
    /\ Len(s) >= 9
    /\ s[Len(s) - 8] = "-"
    /\ \A k \in (Len(s) - 7)..Len(s) : s[k] \in HexDigits

\* s without its trailing "-<8 hex>" fragment.
Slug(s) == SubSeq(s, 1, Len(s) - 9)

\* C1: DELETE /api/delete-card/<id> on a catalog holding a record with that
\* id removes exactly the records with that id, keeps every other record in
\* place, persists the result and answers success with totalCards the length
\* of the persisted catalog (2 when one of 3 cards with distinct ids goes);
\* when no record has the id it answers 404 NotFound and leaves the files as
\* they were.
C1_DeleteSemantics ==
    \A card_id \in CardIds :
        LET r == delete_card_do(card_id) IN
        IF HasId(Catalog, card_id)
        THEN /\ r.status = 200
             /\ r.files.dataFile.exists
             /\ r.files.dataFile.cards =
                    SelectSeq(Catalog, LAMBDA c : c.id # card_id)
             /\ r.totalCards = Len(r.files.dataFile.cards)
             /\ (Len(Catalog) = 3 /\ DistinctIds(Catalog) => r.totalCards = 2)
             /\ r.files.uploads = uploads
             /\ r.files.processed = processed
        ELSE /\ r.status = 404
             /\ r.outcome = "NotFound"
             /\ r.files = Files

\* A catalog of two records with different ids: the delete of the first id
\* answers success with one record left, the other one.
C1_Witness ==
    \E card_id \in CardIds :
        /\ Len(Catalog) = 2
        /\ Catalog[1].id = card_id
        /\ Catalog[2].id # card_id
        /\ delete_card_do(card_id).status = 200
        /\ delete_card_do(card_id).totalCards = 1
        /\ delete_card_do(card_id).files.dataFile.cards = <<Catalog[2]>>

\* C3: confirm-number-card for a word with no preview file in the processed
\* directory answers 404 NotFound, makes no request to the publisher and
\* leaves the catalog (and every other file) as it was.
C3_ConfirmWithoutPreview ==
    \A w \in Words, short_uuid \in HexFrags, resp \in Responses :
        processed[Lower(Upper(w))] = NoImage =>
            LET r == confirm_number_card_do(TRUE, w, short_uuid, resp) IN
            /\ r.status = 404
            /\ r.outcome = "NotFound"
            /\ r.requests = <<>>
            /\ r.files = Files

\* A word without a preview while another word has one and the catalog holds
\* a card: the confirm answers 404.
C3_Witness ==
    \E w, v \in Words :
        /\ processed[Lower(Upper(w))] = NoImage
        /\ processed[Lower(Upper(v))] # NoImage
        /\ Len(Catalog) > 0
        /\ Configured(env)
        /\ \A short_uuid \in HexFrags, resp \in Responses :
               confirm_number_card_do(TRUE, w, short_uuid, resp).status = 404

\* C4: process-number-card with any one of filename, word, cropX, cropY,
\* cropWidth, cropHeight omitted answers 400 InvalidInput and leaves the
\* catalog file as it was, whichever field is omitted and whatever the others
\* hold (a filename that does not exist included).
C4_MissingField ==
    \A omitted \in RequiredFields, filename \in FileNames, w \in Words,
       c \in Crops, fault \in Faults :
        LET r == process_number_card_do(omitted, filename, w, c, fault) IN
        /\ r.status = 400
        /\ r.outcome = "InvalidInput"
        /\ r.files.dataFile = dataFile

\* The uploaded file is there and the catalog holds a card, so that only the
\* omitted crop field stands between the request and a preview.
C4_Witness ==
    \E filename \in FileNames, w \in Words, c \in Crops :
        /\ Len(Catalog) > 0
        /\ process_number_card_do("none", filename, w, c, "none").status = 200
        /\ process_number_card_do("cropHeight", filename, w, c, "none").status = 400

\* C5: process-number-card with every required field and a filename that is
\* not under the uploads directory answers 404 NotFound and leaves the catalog
\* and every preview file as they were.
C5_UnknownTempFile ==
    \A filename \in FileNames, w \in Words, c \in Crops, fault \in Faults :
        (filename \notin TempNames \/ uploads[filename] = NoImage) =>
            LET r == process_number_card_do("none", filename, w, c, fault) IN
            /\ r.status = 404
            /\ r.outcome = "NotFound"
            /\ r.files.dataFile = dataFile
            /\ r.files.processed = processed

\* No file was uploaded, while a preview and a card exist; the request
\* answers 404.
C5_Witness ==
    \E filename \in TempNames, w \in Words, c \in Crops :
        /\ uploads[filename] = NoImage
        /\ processed[Lower(Upper(w))] # NoImage
        /\ Len(Catalog) > 0
        /\ process_number_card_do("none", filename, w, c, "none").status = 404

\* What C2 says of one confirm call for word w, the id's slug being slug.
ConfirmPublishes(w, short_uuid, resp, slug) ==
    LET key == Lower(Upper(w))
        r == confirm_number_card_do(TRUE, w, short_uuid, resp)
        after == r.files.dataFile.cards
    IN  (processed[key] # NoImage /\ r.status = 200) =>
            /\ r.files.dataFile.exists
            /\ after = Append(Catalog, r.card)
            /\ r.card.type = "number"
            /\ r.card.word = Upper(w)
            /\ HasHexSuffix(r.card.id)
            /\ Slug(r.card.id) = slug
            /\ r.card.imageUrl # ""
            /\ r.card.imageUrl =
                   upload_to_cloudflare(env, processed[key],
                                        r.card.id \o PngExt, resp).url
            /\ r.totalCards = Len(after)
            /\ r.files.processed[key] = NoImage

\* C2 as stated: after a preview was stored for word w, a confirm for w whose
\* publish succeeds adds exactly one record to the catalog, of type number,
\* with word w upper-cased, id w lower-cased + "-" + 8 hex digits and the
\* non-empty URL the publisher returned; totalCards is the new catalog length
\* and the preview of w is gone.
C2_Original ==
    \A w \in Words, short_uuid \in HexFrags, resp \in Responses :
        ConfirmPublishes(w, short_uuid, resp, Lower(w))

\* C2 as amended: the same, the id being the stored (upper-cased) word
\* lower-cased + "-" + 8 hex digits; that is w lower-cased whenever
\* upper-casing and then lower-casing w gives w lower-cased.
C2_ConfirmPublishes ==
    \A w \in Words, short_uuid \in HexFrags, resp \in Responses :
        /\ ConfirmPublishes(w, short_uuid, resp, Lower(Upper(w)))
        /\ Lower(Upper(w)) = Lower(w) =>
               ConfirmPublishes(w, short_uuid, resp, Lower(w))

\* A preview is stored for a word, a card is in the catalog already, and the
\* confirm for the word succeeds.
C2_Witness ==
    \E w \in Words, short_uuid \in HexFrags, resp \in Responses :
        /\ processed[Lower(Upper(w))] # NoImage
        /\ Len(Catalog) = 1
        /\ confirm_number_card_do(TRUE, w, short_uuid, resp).status = 200
        /\ confirm_number_card_do(TRUE, w, short_uuid, resp).totalCards = 2

StartsWith(s, prefix) ==
    Len(s) >= Len(prefix) /\ SubSeq(s, 1, Len(prefix)) = prefix

\* C6: every record of the catalog, after any publish and delete operations
\* with any words, has an id whose part before the "-<8 hex>" fragment is
\* lower(word) for a number card and "face-" + lower(word) for a face card,
\* and the id begins with "face-" exactly when the type is "face".
C6_IdMatchesWordAndType ==
    \A k \in 1..Len(Catalog) :
        LET c == Catalog[k] IN
        /\ HasHexSuffix(c.id)
        /\ Slug(c.id) =
               (IF c.type = "face" THEN FacePrefix ELSE <<>>) \o Lower(c.word)
        /\ StartsWith(c.id, FacePrefix) <=> c.type = "face"

\* No character of s has a different upper-case form.
IsUpperCase(s) == \A k \in 1..Len(s) : UpperChar(s[k]) = s[k]

\* The records the four publish paths answer with for word w, when they succeed.
PublishedCards(w) ==
    { r.card : r \in
        { x \in
            { confirm_number_card_do(TRUE, w, u, resp) :
                u \in HexFrags, resp \in Responses }
            \cup { process_face_card_do("file", TRUE, w, f, u, resp) :
                f \in Sources, u \in HexFrags, resp \in Responses }
            \cup { face_main_do(TRUE, w, f, Yes, env, u, resp) :
                f \in Sources, u \in HexFrags, resp \in Responses }
            \cup { number_main_do(TRUE, w, f, c, "none", Yes, env, u, resp) :
                f \in Sources, c \in Crops, u \in HexFrags, resp \in Responses }
          : x.outcome = "Success" } }

\* C7: every record a publish path writes has its word upper-cased whatever
\* the case of the word supplied: words that differ only in letter case give
\* records with the same word.
C7_WordsStoredUpperCase ==
    /\ \A k \in 1..Len(Catalog) : IsUpperCase(Catalog[k].word)
    /\ \A w \in Words : \A card \in PublishedCards(w) :
           /\ card.word = Upper(w)
           /\ IsUpperCase(card.word)
    /\ \A w, v \in Words :
           Lower(w) = Lower(v) =>
               \A a \in PublishedCards(w), b \in PublishedCards(v) :
                   a.word = b.word

\* Two words that differ only in letter case are both published, through
\* every path, with one and the same word, and the catalog holds such a card.
C7_Witness ==
    \E w, v \in Words :
        /\ w # v
        /\ Lower(w) = Lower(v)
        /\ Len(Catalog) > 0
        /\ Catalog[1].word = Upper(w)
        /\ \E a \in PublishedCards(w), b \in PublishedCards(v) :
               a.type = "number" /\ b.type = "face" /\ a.word = b.word

\* What C8 says of one successful face-card publish with answer r, for word w
\* and input bytes file.
FacePublished(r, w, file) ==
    /\ r.files.dataFile.exists
    /\ r.files.dataFile.cards = Append(Catalog, r.card)
    /\ r.totalCards = Len(Catalog) + 1
    /\ r.card.type = "face"
    /\ r.card.word = Upper(w)
    /\ HasHexSuffix(r.card.id)
    /\ Slug(r.card.id) = <<"f", "a", "c", "e", "-">> \o Lower(r.card.word)
    /\ Len(r.requests) = 1
    /\ r.requests[1].body = file
    /\ r.files.processed = processed
    /\ r.files.uploads = uploads

\* C8: a face card published through the admin process-face-card endpoint or
\* the face-card script, when the publish succeeds, adds exactly one record
\* to the catalog, of type face, with the word upper-cased and the id "face-"
\* + lower(word) + "-" + 8 hex digits; the bytes handed to the publisher are
\* the input bytes, and no preview file is created or removed.
C8_FacePublish ==
    \A w \in Words, file \in Sources, short_uuid \in HexFrags,
       resp \in Responses :
        /\ LET r == process_face_card_do("file", TRUE, w, file, short_uuid, resp)
           IN  r.status = 200 => FacePublished(r, w, file)
        /\ \A answer \in Answers :
               LET r == face_main_do(TRUE, w, file, answer, env, short_uuid, resp)
               IN  r.outcome = "Success" => FacePublished(r, w, file)

\* A preview is waiting and a card is in the catalog; the same word and file
\* are published with success through the endpoint and through the script.
C8_Witness ==
    \E w \in Words, file \in Sources, short_uuid \in HexFrags,
       resp \in Responses :
        /\ Len(Catalog) = 1
        /\ \E k \in PreviewKeys : processed[k] # NoImage
        /\ process_face_card_do("file", TRUE, w, file, short_uuid, resp).status = 200
        /\ face_main_do(TRUE, w, file, Yes, env, short_uuid, resp).outcome = "Success"

\* C9: in both scripts any answer at the prompt other than "yes" (compared
\* case-insensitively after trimming whitespace) ends the run with exit
\* status 0, the catalog file as it was before the run and no request to the
\* publisher.
C9_CancelIsNoOp ==
    \A w \in Words, file \in Sources, answer \in Answers,
       short_uuid \in HexFrags, resp \in Responses :
        (Opens(file) /\ Lower(Strip(answer)) # <<"y", "e", "s">>) =>
            /\ LET r == face_main_do(TRUE, w, file, answer, env, short_uuid, resp)
               IN  /\ r.status = 0
                   /\ r.requests = <<>>
                   /\ r.files.dataFile = dataFile
            /\ \A c \in Crops :
                   LET r == number_main_do(TRUE, w, file, c, "none", answer, env,
                                           short_uuid, resp)
                   IN  /\ r.status = 0
                       /\ r.requests = <<>>
                       /\ r.files.dataFile = dataFile

\* The catalog holds a card and the environment is configured, so that "yes"
\* would publish; the answer "y" cancels both scripts.
C9_Witness ==
    \E w \in Words, file \in Sources, c \in Crops, short_uuid \in HexFrags,
       resp \in Responses :
        /\ Len(Catalog) = 1
        /\ face_main_do(TRUE, w, file, Yes, env, short_uuid, resp).outcome = "Success"
        /\ face_main_do(TRUE, w, file, <<"y">>, env, short_uuid, resp).outcome
               = "Cancelled"
        /\ number_main_do(TRUE, w, file, c, "none", <<"n", "o">>, env,
                          short_uuid, resp).outcome = "Cancelled"

\* CLOUDFLARE_ACCOUNT_ID or CLOUDFLARE_API_TOKEN is unset or empty.
Unconfigured(e) ==
    e.account \in { <<>>, <<"">> } \/ e.token \in { <<>>, <<"">> }

\* The publisher failed on its configuration and sent nothing.
Gated(up) ==
    ~up.ok /\ up.outcome = "MissingConfiguration" /\ up.requests = <<>>

\* Image bytes a publisher may be handed.
Payloads ==
    Sources \cup { ProcessImage(f, c) : f \in Sources, c \in Crops }

\* C10: whenever the publisher is invoked with CLOUDFLARE_ACCOUNT_ID or
\* CLOUDFLARE_API_TOKEN unset or empty it fails with MissingConfiguration
\* and no request to the hosting service is made in that run, in the admin
\* server and in both scripts.
C10_ConfigurationGate ==
    Unconfigured(env) =>
        /\ \A img \in Payloads, card_id \in CardIds, resp \in Responses :
               /\ Gated(upload_to_cloudflare(env, img, card_id \o PngExt, resp))
               /\ Gated(face_upload_to_cloudflare(env, img, card_id \o PngExt, resp))
               /\ Gated(number_upload_to_cloudflare(env, img, card_id \o PngExt, resp))
        /\ \A w \in Words, file \in Sources, short_uuid \in HexFrags,
              resp \in Responses :
               /\ processed[Lower(Upper(w))] # NoImage =>
                      LET r == confirm_number_card_do(TRUE, w, short_uuid, resp)
                      IN  r.outcome = "MissingConfiguration" /\ r.requests = <<>>
               /\ LET r == process_face_card_do("file", TRUE, w, file,
                                                short_uuid, resp)
                  IN  r.outcome = "MissingConfiguration" /\ r.requests = <<>>
               /\ Opens(file) =>
                      /\ LET r == face_main_do(TRUE, w, file, Yes, env,
                                               short_uuid, resp)
                         IN  r.outcome = "MissingConfiguration" /\ r.requests = <<>>
                      /\ \A c \in Crops :
                             LET r == number_main_do(TRUE, w, file, c, "none", Yes,
                                                     env, short_uuid, resp)
                             IN  /\ r.outcome = "MissingConfiguration"
                                 /\ r.requests = <<>>

\* The API token is set but empty and a preview is waiting, so that a confirm
\* reaches the publisher, which fails on its configuration.
C10_Witness ==
    \E w \in Words, short_uuid \in HexFrags, resp \in Responses :
        /\ env.account = <<"acct">>
        /\ env.token = <<"">>
        /\ processed[Lower(Upper(w))] # NoImage
        /\ confirm_number_card_do(TRUE, w, short_uuid, resp).status = 500
        /\ confirm_number_card_do(TRUE, w, short_uuid, resp).outcome
               = "MissingConfiguration"

\* The publish step of an admin endpoint fails for this environment and answer.
PublishFails(resp) ==
    \/ Unconfigured(env)
    \/ resp.status # 200
    \/ ~resp.success

\* C13: in the admin server, when the publish step of confirm-number-card or
\* process-face-card fails (missing configuration, a status other than 200,
\* or a 200 whose body says success false) the endpoint answers 500 with the
\* error, the catalog and every other file are as before, and for
\* confirm-number-card the preview of the word is still there, so that a
\* later confirm for the word succeeds once the publish step does.
C13_PublishFailure ==
    \A w \in Words, short_uuid \in HexFrags, resp \in Answering(env) :
        PublishFails(resp) =>
            /\ \A file \in Sources :
                   LET r == process_face_card_do("file", TRUE, w, file,
                                                 short_uuid, resp)
                   IN  /\ r.status = 500
                       /\ r.outcome \in { "MissingConfiguration", "UploadFailed" }
                       /\ r.card = NoCard
                       /\ r.files = Files
            /\ processed[Lower(Upper(w))] # NoImage =>
                   LET r == confirm_number_card_do(TRUE, w, short_uuid, resp)
                   IN  /\ r.status = 500
                       /\ r.outcome \in { "MissingConfiguration", "UploadFailed" }
                       /\ r.card = NoCard
                       /\ r.files = Files
                       /\ r.files.processed[Lower(Upper(w))] # NoImage
                       /\ \A later \in Responses :
                              (Configured(env) /\ ~PublishFails(later)) =>
                                  confirm_number_card_do(TRUE, w, short_uuid,
                                                         later).status = 200

\* A preview is waiting and the catalog holds a card; the service answers 200
\* with success false: both endpoints answer 500, and the confirm succeeds
\* with a good answer afterwards.
C13_Witness ==
    \E w \in Words, file \in Sources, short_uuid \in HexFrags,
       resp, later \in Responses :
        /\ Configured(env)
        /\ Len(Catalog) = 1
        /\ processed[Lower(Upper(w))] # NoImage
        /\ resp.status = 200 /\ ~resp.success
        /\ confirm_number_card_do(TRUE, w, short_uuid, resp).status = 500
        /\ process_face_card_do("file", TRUE, w, file, short_uuid, resp).status = 500
        /\ confirm_number_card_do(TRUE, w, short_uuid, later).status = 200

\* The outcomes process-number-card can have, over all requests.
ProcessOutcomes ==
    { process_number_card_do(omitted, filename, w, c, fault) :
        omitted \in RequiredFields \cup { "none" }, filename \in FileNames,
        w \in Words, c \in Crops, fault \in Faults }

\* The outcomes upload-temp can have, over all requests.
UploadTempOutcomes ==
    { upload_temp_do(part, name, img) :
        part \in Parts, name \in TempNames, img \in Sources }

\* C17: process-number-card leaves the catalog file as it was whatever its
\* outcome: success with the preview written, 400 InvalidInput, 404 NotFound,
\* 500 ProcessingFailed when crop, background removal or the save of the
\* preview raises; so do GET /api/cards and POST /api/upload-temp.
C17_CatalogUntouched ==
    /\ \A r \in ProcessOutcomes :
           /\ r.files.dataFile = dataFile
           /\ r.status \in { 200, 400, 404, 500 }
           /\ r.status = 200 =>
                  \E k \in PreviewKeys : r.files.processed[k] # NoImage
           /\ r.status # 200 => r.files = Files
    /\ \A r \in UploadTempOutcomes : r.files.dataFile = dataFile
    /\ get_cards_do.files.dataFile = dataFile

\* The catalog holds a card and an uploaded picture is there: requests with
\* each of the four outcomes exist, the successful one writing a preview.
C17_Witness ==
    /\ Len(Catalog) = 1
    /\ \E r \in ProcessOutcomes :
           r.status = 200 /\ r.files.processed # processed
    /\ \E r \in ProcessOutcomes : r.outcome = "InvalidInput"
    /\ \E r \in ProcessOutcomes : r.outcome = "NotFound"
    /\ \E r \in ProcessOutcomes : r.outcome = "ProcessingFailed"
    /\ \E r \in UploadTempOutcomes : r.status = 200

\* The files are, after the step, as the call with outcome r leaves them.
TakesEffect(r) ==
    /\ dataFile' = r.files.dataFile
    /\ uploads' = r.files.uploads
    /\ processed' = r.files.processed

\* The outcomes of the admin requests other than process-number-card.
OtherAdminOutcomes ==
    { get_cards_do }
    \cup UploadTempOutcomes
    \cup { confirm_number_card_do(hasWord, w, u, resp) :
             hasWord \in BOOLEAN, w \in Words, u \in HexFrags,
             resp \in Answering(env) }
    \cup { process_face_card_do(part, hasWord, w, f, u, resp) :
             part \in Parts, hasWord \in BOOLEAN, w \in Words, f \in Sources,
             u \in HexFrags, resp \in Answering(env) }
    \cup { delete_card_do(card_id) : card_id \in CardIds }

\* After a step that is a successful confirm for word w, any confirm for a
\* word with the same preview answers 404, sends nothing and changes no file.
SecondConfirmFails ==
    \A w \in Words, u \in HexFrags, resp \in Responses :
        (/\ processed[Lower(Upper(w))] # NoImage
         /\ dataFile' # dataFile
         /\ confirm_number_card_do(TRUE, w, u, resp).status = 200
         /\ TakesEffect(confirm_number_card_do(TRUE, w, u, resp))) =>
            \A v \in Words, u2 \in HexFrags, again \in Responses :
                Lower(Upper(v)) = Lower(Upper(w)) =>
                    LET s == (confirm_number_card_do(TRUE, v, u2, again))' IN
                    /\ s.status = 404
                    /\ s.outcome = "NotFound"
                    /\ s.requests = <<>>
                    /\ s.card = NoCard
                    /\ s.files.dataFile = dataFile'

\* No admin request other than process-number-card creates a preview.
NoPreviewWithoutProcess ==
    \A r \in OtherAdminOutcomes :
        \A k \in PreviewKeys :
            processed[k] = NoImage => r.files.processed[k] = NoImage

\* C18: with admin requests handled one at a time, a preview yields at most
\* one card: after a successful confirm-number-card for word w a further
\* confirm for w, with no process-number-card for w in between, answers 404
\* NotFound, publishes nothing and adds no record.
C18_PreviewYieldsOneCard ==
    /\ []NoPreviewWithoutProcess
    /\ [][SecondConfirmFails]_vars

\* A confirm has just succeeded: the catalog holds the card of a word whose
\* preview is gone, and a confirm for the word answers 404.
C18_Witness ==
    \E w \in Words, u \in HexFrags, resp \in Responses :
        /\ Configured(env)
        /\ Len(Catalog) = 1
        /\ Catalog[1].type = "number"
        /\ Catalog[1].word = Upper(w)
        /\ processed[Lower(Upper(w))] = NoImage
        /\ confirm_number_card_do(TRUE, w, u, resp).status = 404

\* The PNG a process call for the upload img and the crop c produces.
Preview(img, c) ==
    [kind |-> "nobg", src |-> img.src,
     box |-> <<c[1], c[2], c[1] + c[3], c[2] + c[4]>>]

\* A successful process call for word w stores its image under the lower-cased
\* word, whatever was there, and leaves the other previews alone.
ProcessOverwrites ==
    \A filename \in TempNames, w \in Words, c \in Crops :
        LET r == process_number_card_do("none", filename, w, c, "none") IN
        r.status = 200 =>
            /\ r.files.processed[Lower(Upper(w))] = Preview(uploads[filename], c)
            /\ \A k \in PreviewKeys \ { Lower(Upper(w)) } :
                   r.files.processed[k] = processed[k]

\* A confirm for a word whose preview is there finds it and, when it reaches
\* the publisher, sends the preview as it is.
ConfirmSendsPreview ==
    \A v \in Words, u \in HexFrags, resp \in Answering(env) :
        processed[Lower(Upper(v))] # NoImage =>
            LET s == confirm_number_card_do(TRUE, v, u, resp) IN
            /\ s.status # 404
            /\ Configured(env) =>
                   /\ Len(s.requests) = 1
                   /\ s.requests[1].body = processed[Lower(Upper(v))]

\* After a step that is a successful process call for word w, the preview of
\* every word with the same lower-cased form is that call's image.
ProcessStepStores ==
    \A filename \in TempNames, w \in Words, c \in Crops :
        (/\ processed' # processed
         /\ dataFile' = dataFile
         /\ uploads' = uploads
         /\ process_number_card_do("none", filename, w, c, "none").status = 200
         /\ TakesEffect(process_number_card_do("none", filename, w, c, "none"))) =>
            \A v \in Words :
                Lower(Upper(v)) = Lower(Upper(w)) =>
                    processed'[Lower(Upper(v))] = Preview(uploads[filename], c)

\* C15: there is at most one outstanding preview per lower-cased word: a
\* second process-number-card call for the same word, in any letter case,
\* overwrites the previous preview, so that a following confirm-number-card
\* for the word publishes the image of the most recent successful process
\* call for it; the previews of other words are not affected.
C15_OnePreviewPerWord ==
    /\ []ProcessOverwrites
    /\ []ConfirmSendsPreview
    /\ [][ProcessStepStores]_vars

\* Word w has a preview, another word has one too, and a process call for w
\* in another letter case succeeds with a different image.
C15_Witness ==
    \E filename \in TempNames, w, v, x \in Words, c \in Crops :
        /\ w # v
        /\ Lower(Upper(v)) = Lower(Upper(w))
        /\ Lower(Upper(x)) # Lower(Upper(w))
        /\ processed[Lower(Upper(w))] # NoImage
        /\ processed[Lower(Upper(x))] # NoImage
        /\ process_number_card_do("none", filename, v, c, "none").status = 200
        /\ process_number_card_do("none", filename, v, c, "none")
               .files.processed[Lower(Upper(w))] # processed[Lower(Upper(w))]

\* The outcomes of the four publish paths, over all inputs.
PublishOutcomes ==
    { confirm_number_card_do(TRUE, w, u, resp) :
        w \in Words, u \in HexFrags, resp \in Responses }
    \cup { process_face_card_do("file", TRUE, w, f, u, resp) :
        w \in Words, f \in Sources, u \in HexFrags, resp \in Responses }
    \cup { face_main_do(TRUE, w, f, a, env, u, resp) :
        w \in Words, f \in Sources, a \in Answers, u \in HexFrags,
        resp \in Responses }
    \cup { number_main_do(TRUE, w, f, c, "none", a, env, u, resp) :
        w \in Words, f \in Sources, c \in Crops, a \in Answers,
        u \in HexFrags, resp \in Responses }

\* after holds the records of before whose id is not card_id, each as it was
\* and in the order of before.
RECURSIVE KeepsOrder(_, _, _)
KeepsOrder(before, after, card_id) ==
    IF before = <<>> THEN after = <<>>
    ELSE IF Head(before).id # card_id
         THEN /\ after # <<>>
              /\ Head(after) = Head(before)
              /\ KeepsOrder(Tail(before), Tail(after), card_id)
         ELSE KeepsOrder(Tail(before), after, card_id)

\* Records a catalog may hold: those it holds and those a publish answers with.
SomeCards ==
    { Catalog[k] : k \in 1..Len(Catalog) }
    \cup { r.card : r \in { x \in PublishOutcomes : x.outcome = "Success" } }

\* C19: with operations run one at a time, a successful publish (admin
\* confirm-number-card, admin process-face-card, either script) leaves every
\* record already in the catalog as it was and in the same relative order and
\* puts the new record last; a successful delete keeps the fields and the
\* relative order of all records that remain.
C19_OrderPreserved ==
    /\ \A r \in PublishOutcomes :
           r.outcome = "Success" =>
               LET after == r.files.dataFile.cards IN
               /\ Len(after) = Len(Catalog) + 1
               /\ \A k \in 1..Len(Catalog) : after[k] = Catalog[k]
               /\ after[Len(after)] = r.card
               /\ r.card # NoCard
    /\ \A card_id \in CardIds :
           LET r == delete_card_do(card_id) IN
           r.status = 200 =>
               KeepsOrder(Catalog, r.files.dataFile.cards, card_id)
    /\ \A a, b, c \in SomeCards : \A card_id \in { a.id, b.id, c.id } :
           KeepsOrder(<<a, b, c>>, Without(<<a, b, c>>, card_id), card_id)

\* The catalog holds a number card and a face card; each of the four publish
\* paths can add a third record, and the delete of the first leaves the second.
C19_Witness ==
    /\ Len(Catalog) = 2
    /\ Catalog[1].id # Catalog[2].id
    /\ Catalog[1].type # Catalog[2].type
    /\ \E r \in PublishOutcomes :
           r.outcome = "Success" /\ r.card.type = "number" /\ r.status = 0
    /\ \E r \in PublishOutcomes :
           r.outcome = "Success" /\ r.card.type = "face" /\ r.status = 200
    /\ delete_card_do(Catalog[1].id).status = 200
    /\ delete_card_do(Catalog[1].id).files.dataFile.cards = <<Catalog[2]>>

\* Both calls were answered with success, and each had read the catalog
\* before the other wrote it: they read the same list.
BothSucceeded(i, j) ==
    /\ i # j
    /\ calls[i].pc = "done" /\ calls[i].outcome = "Success"
    /\ calls[j].pc = "done" /\ calls[j].outcome = "Success"
    /\ calls[i].op \in AdminOps /\ calls[j].op \in AdminOps
    /\ calls[i].status = 200 /\ calls[j].status = 200

ReadTheSame(i, j) == calls[i].base = calls[j].base

\* The catalog shows nothing of what call j did: the card it published is not
\* there, the id it deleted is.
UpdateLost(j) ==
    IF calls[j].op = "delete" THEN HasId(dataFile.cards, calls[j].card.id)
    ELSE ~HasId(dataFile.cards, calls[j].card.id)

\* C11: two admin calls that change the catalog (two confirms, two face-card
\* publishes, a publish and a delete) can interleave their load, modify and
\* save steps; when both have read the catalog before either writes it, both
\* answer success and the catalog file is what the later writer held: the
\* update of the other call is lost, nothing locks, merges or compares
\* versions.
C11_LastWriterWins ==
    \A i, j \in Callers :
        (/\ BothSucceeded(i, j)
         /\ ReadTheSame(i, j)
         /\ calls[i].card.id # calls[j].card.id) =>
            /\ ~damaged
            /\ dataFile.exists
            /\ dataFile.cards \in { calls[i].cards, calls[j].cards }
            /\ calls[i].cards # calls[j].cards
            /\ dataFile.cards = calls[i].cards => UpdateLost(j)
            /\ (calls[i].op # "delete" /\ calls[j].op # "delete") =>
                   Len(dataFile.cards) = Len(calls[i].base) + 1

\* Two confirms for the same word have both answered success with different
\* cards after reading the same catalog, and the catalog holds one of the two.
C11_Witness ==
    \E i, j \in Callers :
        /\ BothSucceeded(i, j)
        /\ ReadTheSame(i, j)
        /\ calls[i].op = "confirm" /\ calls[j].op = "confirm"
        /\ calls[i].card.id # calls[j].card.id
        /\ dataFile.cards = calls[i].cards
        /\ HasId(dataFile.cards, calls[i].card.id)
        /\ ~HasId(dataFile.cards, calls[j].card.id)
        /\ Asset(calls[j].card) \in remote

\* The records json.load gives for the catalog file; none when the file
\* cannot be parsed.
Readable == IF damaged THEN <<>> ELSE load_cards(dataFile)

Records(cards) == { cards[k] : k \in 1..Len(cards) }

\* Call i writes the catalog in this step.
Writes(i) == calls[i].pc = "save" /\ calls'[i].pc = "done"

\* In this step a record comes into the catalog only as the new card of a
\* publish call that writes in the step and whose image the hosting service
\* has taken, and a record leaves it only when a delete call naming its id
\* writes in the step.
OnlyPublishAdds ==
    \A c \in Records(Readable') \ Records(Readable) :
        \E i \in Callers :
            /\ Writes(i)
            /\ calls[i].op \in PublishOps
            /\ calls[i].card = c
            /\ Asset(c) \in remote

OnlyDeleteRemoves ==
    \A c \in Records(Readable) \ Records(Readable') :
        \E i \in Callers :
            /\ Writes(i)
            /\ calls[i].op = "delete"
            /\ calls[i].card.id = c.id

\* The calls that write in this step write over the list they read, and write
\* all of it.
WritesInTurn ==
    \A i \in Callers :
        Writes(i) => (~damaged /\ calls[i].base = Readable /\ ~damaged')

IdOfItsOwn(i) ==
    \A j \in Callers \ { i } : calls[j].card.id # calls[i].card.id

\* A publish call is at load_cards or beyond only with its image taken by the
\* hosting service; when its load or its save has failed, the call has
\* answered with a failure, the image is with the service and the catalog has
\* no record with the card's id.
UploadComesFirst ==
    \A i \in Callers :
        LET c == calls[i] IN
        /\ (c.op \in PublishOps /\ c.pc \in { "load", "save" }) =>
               /\ Asset(c.card) \in remote
               /\ c.card.imageUrl # ""
        /\ (c.op \in PublishOps /\ c.outcome = "CatalogFailed") =>
               /\ c.pc = "done"
               /\ c.status = (IF c.op \in { "confirm", "face" } THEN 500 ELSE 1)
               /\ Asset(c.card) \in remote
               /\ IdOfItsOwn(i) => ~HasId(Readable, c.card.id)

\* C16: in every publish path (admin confirm-number-card, admin
\* process-face-card, both scripts) the upload to the hosting service comes
\* before the catalog is loaded, appended to and saved; so when the upload
\* succeeds and the load or the save that follows fails, the remote file
\* exists while the catalog has no record for it, and nothing in the system
\* removes the file or adds the record afterwards.
C16_OrphanedUpload ==
    /\ []UploadComesFirst
    /\ [][remote \subseteq remote']_vars

\* A confirm has uploaded its image and then failed to save the catalog, and
\* the other call has since published a card of its own with success.
C16_Witness ==
    \E i, j \in Callers :
        /\ i # j
        /\ calls[i].op = "confirm"
        /\ calls[i].outcome = "CatalogFailed"
        /\ calls[i].cards # <<>>
        /\ Asset(calls[i].card) \in remote
        /\ calls[j].op \in PublishOps
        /\ calls[j].outcome = "Success"
        /\ calls[j].card.id # calls[i].card.id
        /\ HasId(Readable, calls[j].card.id)
        /\ ~HasId(Readable, calls[i].card.id)

\* The delivery URL of the server's publisher for image id.
MediumUrl(e, id) ==
    "https://imagedelivery.net/"
        \o (IF e.hash = <<>> THEN "3oZsG34qPq3SIXQhl47vqA" ELSE e.hash[1])
        \o "/" \o id \o "/medium"

\* The delivery URL of the scripts' publisher for the answer resp.
PublicUrl(e, resp) ==
    IF Len(resp.variants) > 0 THEN Head(resp.variants)
    ELSE "https://imagedelivery.net/" \o e.account[1] \o "/" \o resp.id
             \o "/public"

\* C14: the publisher of both scripts returns the first entry of the
\* service's variants array when it is not empty (for
\* ["https://img.example/abc/public"], exactly that URL) and
\* https://imagedelivery.net/<account_id>/<image_id>/public when it is empty;
\* the publisher of the admin server ignores the array and returns
\* https://imagedelivery.net/<delivery-hash>/<image_id>/medium, the hash being
\* CLOUDFLARE_DELIVERY_HASH, or 3oZsG34qPq3SIXQhl47vqA when that is unset.
C14_UrlDerivation ==
    /\ \A resp \in UrlResponses, card_id \in CardIds :
           LET name == card_id \o PngExt
               a == upload_to_cloudflare(env, RawImage("photo"), name, resp)
               f == face_upload_to_cloudflare(env, RawImage("photo"), name, resp)
               n == number_upload_to_cloudflare(env, RawImage("photo"), name, resp)
           IN  /\ a.ok /\ f.ok /\ n.ok
               /\ a.url = MediumUrl(env, resp.id)
               /\ f.url = PublicUrl(env, resp)
               /\ n.url = PublicUrl(env, resp)
               /\ resp.variants = <<"https://img.example/abc/public">> =>
                      /\ f.url = "https://img.example/abc/public"
                      /\ n.url = "https://img.example/abc/public"
               /\ resp.variants = <<>> =>
                      /\ f.url = "https://imagedelivery.net/acct/img1/public"
                      /\ n.url = "https://imagedelivery.net/acct/img1/public"
               /\ env.hash = <<>> =>
                      a.url = "https://imagedelivery.net/3oZsG34qPq3SIXQhl47vqA/img1/medium"
               /\ env.hash = <<"h4sh">> =>
                      a.url = "https://imagedelivery.net/h4sh/img1/medium"
    /\ \A k \in 1..Len(Catalog) :
           Catalog[k].imageUrl \in
               { MediumUrl(env, "img1") }
               \cup { PublicUrl(env, resp) : resp \in UrlResponses }

\* With CLOUDFLARE_DELIVERY_HASH set, the catalog holds a card published by
\* the server and a card published by a script on an empty variants array.
C14_Witness ==
    /\ env.hash = <<"h4sh">>
    /\ Len(Catalog) = 2
    /\ Catalog[1].imageUrl = "https://imagedelivery.net/h4sh/img1/medium"
    /\ Catalog[2].imageUrl = "https://imagedelivery.net/acct/img1/public"

====
